---- MODULE Spec2Model ----
(***************************************************************************)
(* Model of the bank-statement backend (src/backend/server.js).            *)
(*                                                                         *)
(* Numbers.  A JavaScript number that carries money is modelled as an      *)
(* integer count of thousandths (1000 = 1.00), so that an amount with a    *)
(* third decimal (0.005) can be told from its two-decimal rounding.  NaN   *)
(* is kept apart from the numbers where the code can produce it.  A text   *)
(* value (a CSV cell) is a sequence of one-character strings.              *)
(***************************************************************************)
EXTENDS Integers, Sequences, FiniteSets, TLC

(***************************************************************************)
(* Bounds of the model.                                                    *)
(***************************************************************************)
MaxRows == 3
MaxEntries == 3
MaxInflight == 2
MaxImport == 2
MaxTxns == 3

(***************************************************************************)
(* Text values.                                                            *)
(***************************************************************************)
\* The value `undefined` (getVal found no column).
Undefined == <<"undefined">>

\* The value `null`.
Null == <<"null">>

Digits == {"0", "1", "2", "3", "4", "5", "6", "7", "8", "9"}

DigitVal(c) ==
  CASE c = "0" -> 0 [] c = "1" -> 1 [] c = "2" -> 2 [] c = "3" -> 3
    [] c = "4" -> 4 [] c = "5" -> 5 [] c = "6" -> 6 [] c = "7" -> 7
    [] c = "8" -> 8 [] c = "9" -> 9

IsSpace(c) == c \in {" ", "\t", "\n", "\r"}

RECURSIVE TrimStart(_)
TrimStart(s) ==
  IF s # <<>> /\ IsSpace(Head(s)) THEN TrimStart(Tail(s)) ELSE s

RECURSIVE TrimEnd(_)
TrimEnd(s) ==
  IF s # <<>> /\ IsSpace(s[Len(s)]) THEN TrimEnd(SubSeq(s, 1, Len(s) - 1)) ELSE s

\* String.prototype.trim
StrTrim(s) == TrimEnd(TrimStart(s))

\* The longest prefix of s made of decimal digits.
RECURSIVE DigitPrefix(_)
DigitPrefix(s) ==
  IF s # <<>> /\ Head(s) \in Digits THEN <<Head(s)>> \o DigitPrefix(Tail(s)) ELSE <<>>

RECURSIVE DigitsValue(_)
DigitsValue(ds) ==
  IF ds = <<>> THEN 0 ELSE DigitsValue(SubSeq(ds, 1, Len(ds) - 1)) * 10 + DigitVal(ds[Len(ds)])

\* The first three fraction digits as thousandths (further digits are below
\* the model's resolution).
FracValue(ds) ==
  LET d(i) == IF i <= Len(ds) THEN DigitVal(ds[i]) ELSE 0
  IN  d(1) * 100 + d(2) * 10 + d(3)

\* Number.POSITIVE_INFINITY, as a value above every amount (in thousandths)
\* that a text of the model denotes; its negation is Number.NEGATIVE_INFINITY.
Infinity == 2000000000

IsFinite(x) == 0 - Infinity < x /\ x < Infinity

TxtInfinity == <<"I", "n", "f", "i", "n", "i", "t", "y">>

StartsWith(s, prefix) == Len(s) >= Len(prefix) /\ SubSeq(s, 1, Len(prefix)) = prefix

\* parseFloat: leading white space is skipped, then the longest prefix of the
\* form [+-] Infinity or [+-] digits [. digits] is converted; NaN when that
\* prefix holds no digit.  (Exponents are outside the text values of the model.)
parseFloat(s) ==
  LET t    == TrimStart(s)
      neg  == t # <<>> /\ Head(t) = "-"
      u    == IF t # <<>> /\ Head(t) \in {"-", "+"} THEN Tail(t) ELSE t
      ip   == DigitPrefix(u)
      r    == SubSeq(u, Len(ip) + 1, Len(u))
      fp   == IF r # <<>> /\ Head(r) = "." THEN DigitPrefix(Tail(r)) ELSE <<>>
      mag  == IF StartsWith(u, TxtInfinity) THEN Infinity
              ELSE DigitsValue(ip) * 1000 + FracValue(fp)
  IN  IF ip = <<>> /\ fp = <<>> /\ ~StartsWith(u, TxtInfinity)
        THEN [nan |-> TRUE, v |-> 0]
        ELSE [nan |-> FALSE, v |-> IF neg THEN 0 - mag ELSE mag]

\* cleaned.replace(/^\(|\)$/g, ''): a leading "(" and a trailing ")" are removed.
StripParens(s) ==
  LET a == IF s # <<>> /\ Head(s) = "(" THEN Tail(s) ELSE s
  IN  IF a # <<>> /\ a[Len(a)] = ")" THEN SubSeq(a, 1, Len(a) - 1) ELSE a

\* /^\(.*\)$/.test(cleaned)
IsParenthesised(s) ==
  /\ Len(s) >= 2
  /\ Head(s) = "("
  /\ s[Len(s)] = ")"
  /\ \A i \in 1..Len(s) : s[i] \notin {"\n", "\r"}

\* (the parenthesised branch returns n instead of -n)
parseNumberSafeNoNegate(val) ==
  IF val \in {Undefined, Null} THEN 0
  ELSE LET cleaned == StrTrim(SelectSeq(val, LAMBDA c : c # ","))
       IN  IF cleaned = <<>> THEN 0
           ELSE IF IsParenthesised(cleaned)
             THEN LET n == parseFloat(StripParens(cleaned))
                  IN  IF n.nan THEN 0 ELSE n.v
             ELSE LET n == parseFloat(cleaned)
                  IN  IF n.nan THEN 0 ELSE n.v

\* (the commas are not removed before parsing)
parseNumberSafeKeepCommas(val) ==
  IF val \in {Undefined, Null} THEN 0
  ELSE LET cleaned == StrTrim(val)
       IN  IF cleaned = <<>> THEN 0
           ELSE IF IsParenthesised(cleaned)
             THEN LET n == parseFloat(StripParens(cleaned))
                  IN  IF n.nan THEN 0 ELSE 0 - n.v
             ELSE LET n == parseFloat(cleaned)
                  IN  IF n.nan THEN 0 ELSE n.v

parseNumberSafe(val) ==
  IF val \in {Undefined, Null} THEN 0
  ELSE LET cleaned == StrTrim(SelectSeq(val, LAMBDA c : c # ","))
       IN  IF cleaned = <<>> THEN 0
           ELSE IF IsParenthesised(cleaned)
             THEN LET n == parseFloat(StripParens(cleaned))
                  IN  IF n.nan THEN 0 ELSE 0 - n.v
             ELSE LET n == parseFloat(cleaned)
                  IN  IF n.nan THEN 0 ELSE n.v

(***************************************************************************)
(* The state.                                                              *)
(***************************************************************************)
VARIABLES
  upPc,            \* upload-statement: "idle", "streaming", "responded", "threw", "crashed"
  upBank,          \* req.params.bank
  upOpening,       \* the opening balance the client holds for the statement
  upFileRows,      \* the rows the parser has emitted so far, in file order
  results,         \* const results = []
  runningBalance,  \* let runningBalance = 0
  upStatus,        \* HTTP status of the response sent, 0 while none is sent
  upFile,          \* req.file.path in uploads/: "none", "present" or "deleted"
  entries,         \* table entries, in id order
  nextId,          \* the id AUTOINCREMENT gives the next inserted row
  pending,         \* POST /api/entry requests between their SELECT and their INSERT
  genPc,           \* generate-pdf: "idle", "rows", "ended", "threw"
  genReqBank,      \* req.body.bank as sent (NoBank when the field is absent)
  genTemplate,     \* the template that was run: a bank, "generic", "inherited", "none"
  genAccount,      \* req.body.account: "plain", "extra" or "null"
  genLogo,         \* the bank's logo file: "present", "missing" or "broken"
  genContLogo,     \* the logo file read on continuation pages, likewise
  genTxns,         \* req.body.transactions
  genIdx,          \* index of the next entry of entries.forEach
  tableY,          \* tableY / yPos of the template (1/1000 pt)
  pageNo,          \* number of the page being drawn
  docFont,         \* the document's current font and size: <<name, size>>
  ops,             \* the drawing instructions issued on the document, in order
  genStatus,       \* HTTP status of the response, 0 while none is decided
  summary,         \* the totals a template last printed, with the inputs it had
  parsed,          \* the last call of parseNumberSafe: its argument and its result
  downloads,       \* the responses of GET /api/download-csv-template/:bank, in order
  impPc,           \* import-csv: "idle", "reading", "responded", "crashed"
  impRows,         \* const results = [] of import-csv: the rows pushed so far
  impStatus,       \* HTTP status of the response sent, 0 while none is sent
  impFile,         \* req.file.path in uploads/: "none", "present" or "deleted"
  accountInfo,     \* table account_info, in id order
  acctPending,     \* POST /api/account requests between their SELECT and their write
  acctPosts,       \* number of POST /api/account requests received
  acctGot          \* the body of the last GET /api/account response

upVars == <<upPc, upBank, upOpening, upFileRows, results, runningBalance, upStatus, upFile>>

dbVars == <<entries, nextId, pending>>

pdfVars == <<genPc, genReqBank, genTemplate, genAccount, genLogo, genContLogo, genTxns, genIdx,
             tableY, pageNo, docFont, ops, genStatus>>

\* What the handlers of one endpoint leave alone.
sumVars == <<summary>>

parseVars == <<parsed>>

dlVars == <<downloads>>

impVars == <<impPc, impRows, impStatus, impFile>>

acctVars == <<accountInfo, acctPending, acctPosts, acctGot>>

UploadFrame == UNCHANGED <<dbVars, pdfVars, sumVars, parseVars, dlVars, impVars, acctVars>>

EntriesFrame == UNCHANGED <<upVars, pdfVars, sumVars, parseVars, dlVars, impVars, acctVars>>

PdfFrame == UNCHANGED <<upVars, dbVars, sumVars, parseVars, dlVars, impVars, acctVars>>

SummaryFrame == UNCHANGED <<upVars, dbVars, pdfVars, parseVars, dlVars, impVars, acctVars>>

ParseFrame == UNCHANGED <<upVars, dbVars, pdfVars, sumVars, dlVars, impVars, acctVars>>

DownloadFrame == UNCHANGED <<upVars, dbVars, pdfVars, sumVars, parseVars, impVars, acctVars>>

\* (import-csv writes the entries table)
ImportFrame == UNCHANGED <<upVars, pdfVars, sumVars, parseVars, dlVars, pending, acctVars>>

AccountFrame == UNCHANGED <<upVars, dbVars, pdfVars, sumVars, parseVars, dlVars, impVars>>

(***************************************************************************)
(* Bank registry (csvTemplates, bankTemplates).                            *)
(***************************************************************************)
Banks == {"PNB", "BANDHAN", "CENTRAL", "ICICI", "SBI", "AXIS", "HDFC", "IDFC"}

\* csvTemplates and bankTemplates are object literals: a lookup by a name that
\* Object.prototype defines (toString, constructor, ...) yields that inherited
\* member, which is truthy.
InheritedKeys == {"toString", "constructor", "valueOf"}

\* Identifiers a request may carry: the registered ones, an unknown one, and
\* one that names an inherited member.
BankIds == Banks \cup {"XYZ", "toString"}

\* !csvTemplates[bank] / bankTemplates[bank] as a condition
LookupTruthy(bank) == bank \in Banks \cup InheritedKeys

csvTemplates ==
  [b \in Banks |->
     CASE b = "PNB"     -> <<"date", "cheque_no", "withdrawal", "deposit", "narration", "balance">>
       [] b = "BANDHAN" -> <<"date", "value_date", "description", "amount", "dr_cr", "balance">>
       [] b = "CENTRAL" -> <<"post_date", "value_date", "branch_code", "cheque_number",
                             "account_description", "debit", "credit", "balance">>
       [] b = "ICICI"   -> <<"txn_date", "value_date", "description", "ref_no", "debit", "credit", "balance">>
       [] b = "SBI"     -> <<"txn_date", "value_date", "description", "ref_no", "debit", "credit", "balance">>
       [] b = "AXIS"    -> <<"txn_date", "cheque_no", "particulars", "debit", "credit", "init_br", "balance">>
       [] b = "HDFC"    -> <<"date", "narration", "ref_no", "withdrawal", "deposit", "balance">>
       [] b = "IDFC"    -> <<"date", "value_date", "particulars", "cheque_no", "debit", "credit", "balance">>]

(***************************************************************************)
(* Rows.  A parsed CSV row is the sequence of its columns in header order, *)
(* each a record [k |-> column name, v |-> text value].                    *)
(***************************************************************************)
\* k.trim() over the column names of the model.
KeyTrim(k) ==
  CASE k = " deposit " -> "deposit"
    [] k = "debit "    -> "debit"
    [] k = " note "    -> "note"
    [] OTHER           -> k

\* k.toLowerCase() over the column names and candidates of the model.
KeyLower(k) ==
  CASE k = "Debit"          -> "debit"
    [] k = "DEBIT"          -> "debit"
    [] k = "Credit"         -> "credit"
    [] k = "Amount"         -> "amount"
    [] k = "DR_CR"          -> "dr_cr"
    [] k = "Narration"      -> "narration"
    [] k = "hasOwnProperty" -> "hasownproperty"
    [] OTHER                -> k

Keys(obj) == [i \in 1..Len(obj) |-> obj[i].k]

HasOwn(obj, k) == \E i \in 1..Len(obj) : obj[i].k = k

Get(obj, k) == obj[CHOOSE i \in 1..Len(obj) : obj[i].k = k].v

\* obj[k] = v: an existing property keeps its place, a new one comes last.
Put(obj, k, v) ==
  IF HasOwn(obj, k)
    THEN [i \in 1..Len(obj) |-> IF obj[i].k = k THEN [k |-> k, v |-> v] ELSE obj[i]]
    ELSE Append(obj, [k |-> k, v |-> v])

\* Object.keys(row).forEach(k => { normalizedRow[k.trim()] = row[k]; })
RECURSIVE NormalizeFrom(_, _)
NormalizeFrom(row, acc) ==
  IF row = <<>> THEN acc
  ELSE NormalizeFrom(Tail(row), Put(acc, KeyTrim(Head(row).k), Head(row).v))

NormalizeRow(row) == NormalizeFrom(row, <<>>)

\* A column named hasOwnProperty shadows Object.prototype.hasOwnProperty with a
\* string, and the call on line 169 raises a TypeError.
LookupThrows(nrow) == HasOwn(nrow, "hasOwnProperty")

\* Object.keys(normalizedRow).find(k => k.toLowerCase() === c.toLowerCase())
FindKeyCI(nrow, c) ==
  LET hits == {i \in 1..Len(nrow) : KeyLower(nrow[i].k) = KeyLower(c)}
  IN  IF hits = {} THEN 0 ELSE CHOOSE i \in hits : \A j \in hits : i <= j

\* (the exact key is not tried before the case-insensitive search)
RECURSIVE getValCaseInsensitiveOnly(_, _)
getValCaseInsensitiveOnly(nrow, candidates) ==
  IF candidates = <<>> THEN Undefined
  ELSE LET f == FindKeyCI(nrow, Head(candidates))
       IN  IF f # 0 THEN nrow[f].v
           ELSE getValCaseInsensitiveOnly(nrow, Tail(candidates))

RECURSIVE getVal(_, _)
getVal(nrow, candidates) ==
  IF candidates = <<>> THEN Undefined
  ELSE LET c == Head(candidates)
           f == FindKeyCI(nrow, c)
       IN  IF HasOwn(nrow, c) THEN Get(nrow, c)
           ELSE IF f # 0 THEN nrow[f].v
           ELSE getVal(nrow, Tail(candidates))

\* (getVal([...]) || '').toString().trim().toUpperCase(), then startsWith(ch)
IndicatorStartsWith(val, ch) ==
  LET t == IF val = Undefined THEN <<>> ELSE StrTrim(val)
  IN  t # <<>> /\ Head(t) \in ch

Abs(x) == IF x < 0 THEN 0 - x ELSE x

\* The bank switch of the data handler: the row's [debit, credit].
Extract(bank, nrow) ==
  CASE bank \in {"PNB", "HDFC"} ->
         [debit  |-> parseNumberSafe(getVal(nrow, <<"withdrawal", "withdrawals", "debit">>)),
          credit |-> parseNumberSafe(getVal(nrow, <<"deposit", "deposits", "credit">>))]
    [] bank = "BANDHAN" ->
         LET amt  == parseNumberSafe(getVal(nrow, <<"amount", "Amount">>))
             drcr == getVal(nrow, <<"dr_cr", "dr/cr", "dr cr", "cr_dr", "type">>)
         IN  IF IndicatorStartsWith(drcr, {"D", "d"}) THEN [debit |-> amt, credit |-> 0]
             ELSE IF IndicatorStartsWith(drcr, {"C", "c"}) THEN [debit |-> 0, credit |-> amt]
             ELSE IF amt < 0 THEN [debit |-> Abs(amt), credit |-> 0]
             ELSE [debit |-> 0, credit |-> amt]
    [] bank \in {"CENTRAL", "ICICI", "SBI", "IDFC", "AXIS"} ->
         [debit  |-> parseNumberSafe(getVal(nrow, <<"debit", "withdrawals", "withdrawal">>)),
          credit |-> parseNumberSafe(getVal(nrow, <<"credit", "deposit", "deposits">>))]
    [] OTHER ->
         [debit  |-> parseNumberSafe(getVal(nrow, <<"debit", "withdrawal", "withdrawals">>)),
          credit |-> parseNumberSafe(getVal(nrow, <<"credit", "deposit", "deposits">>))]

\* +(x).toFixed(2): x to the nearest hundredth.  A value halfway between two
\* hundredths goes up or down in magnitude with the binary expansion of the
\* double that holds it (0.005 goes to 0.01, 1.005 to 1.00), so both are results.
ToFixed2(x) ==
  LET m    == Abs(x)
      lo   == (m \div 10) * 10
      sgn(y) == IF x < 0 THEN 0 - y ELSE y
  IN  IF m % 10 < 5 THEN {sgn(lo)}
      ELSE IF m % 10 > 5 THEN {sgn(lo + 10)}
      ELSE {sgn(lo), sgn(lo + 10)}

\* (the debit is not subtracted)
NextBalanceNoDebit(prev, debit, credit) == prev + credit

\* runningBalance + credit - debit, before toFixed
NextBalance(prev, debit, credit) == prev + credit - debit

ComputedKeys == {"balance", "_parsed_debit", "_parsed_credit"}

\* { ...normalizedRow, balance }, then _parsed_debit and _parsed_credit: the
\* columns that are not overwritten, and the three computed fields.
OutRow(nrow, balance, debit, credit) ==
  [fields         |-> SelectSeq(nrow, LAMBDA p : p.k \notin ComputedKeys),
   balance        |-> balance,
   _parsed_debit  |-> debit,
   _parsed_credit |-> credit]

(***************************************************************************)
(* Inputs of the upload: text values and rows.                             *)
(***************************************************************************)
Txt100 == <<"1", "0", "0">>
Txt250 == <<"2", "5", "0">>
Txt50 == <<"5", "0">>
TxtHalfCent == <<"0", ".", "0", "0", "5">>
TxtEmpty == <<>>
TxtWord == <<"a", "b", "c">>
TxtD == <<"D">>
TxtMinus100 == <<"-", "1", "0", "0">>

Col(k, v) == [k |-> k, v |-> v]

RowDebit100 == <<Col("debit", Txt100), Col("credit", TxtEmpty)>>
RowCredit250 == <<Col("debit", TxtEmpty), Col("credit", Txt250)>>
RowDebit50 == <<Col("debit", Txt50)>>
RowHalfCent == <<Col("credit", TxtHalfCent)>>
RowNoAmounts == <<Col("note", TxtWord), Col(" note ", TxtD)>>
RowAmountDr == <<Col("amount", Txt100), Col("dr_cr", TxtD)>>
RowShadow == <<Col("hasOwnProperty", TxtWord), Col("debit", Txt100)>>
RowBothCases == <<Col("Debit", Txt250), Col("debit", Txt100)>>
RowTwoSynonyms == <<Col("DEBIT", Txt100), Col("withdrawals", Txt50)>>
RowNegAmountDr == <<Col("amount", TxtMinus100), Col("dr_cr", TxtD)>>
RowNegAmountOther == <<Col("amount", TxtMinus100), Col("dr_cr", TxtWord)>>

UploadRows ==
  {RowDebit100, RowCredit250, RowDebit50, RowHalfCent, RowNoAmounts, RowAmountDr, RowShadow,
   RowBothCases, RowTwoSynonyms, RowNegAmountDr, RowNegAmountOther}

\* The identifiers the upload requests of the model carry: one bank of each
\* branch of the switch, an unregistered one and an inherited key.
UploadBankIds == {"PNB", "BANDHAN", "ICICI", "XYZ", "toString"}

\* Opening balances a client may hold for a statement (thousandths).
OpeningBalances == {0, 500000}

(***************************************************************************)
(* POST /api/upload-statement/:bank.  UploadStatement is the handler body   *)
(* up to the registration of the stream callbacks; UploadData, UploadEnd   *)
(* and UploadError are the 'data', 'end' and 'error' callbacks.            *)
(*                                                                         *)
(* Line 154 calls csvParser(), a free identifier of the file (line 10      *)
(* binds the csv-parser factory to csv).  Where the host defines no global *)
(* of that name the call raises a ReferenceError, the handler exits by the *)
(* exception (Express answers 500) and no callback is registered; where it *)
(* does, the callbacks run on the parsed rows.  parserBound selects which.  *)
(***************************************************************************)
UpInit ==
  /\ upPc = "idle"
  /\ upBank = "PNB"
  /\ upOpening = 0
  /\ upFileRows = <<>>
  /\ results = <<>>
  /\ runningBalance = 0
  /\ upStatus = 0
  /\ upFile = "none"

UploadStatement(hasFile, bank, opening, parserBound) ==
  /\ UploadFrame
  /\ upPc = "idle"
  /\ upBank' = bank
  /\ upOpening' = opening
  /\ results' = <<>>
  /\ runningBalance' = 0
  /\ upFileRows' = <<>>
  /\ IF ~hasFile
       THEN upPc' = "responded" /\ upStatus' = 400 /\ upFile' = "none"
       ELSE IF ~LookupTruthy(bank)
              THEN upPc' = "responded" /\ upStatus' = 400 /\ upFile' = "deleted"
       ELSE IF ~parserBound
              THEN upPc' = "threw" /\ upStatus' = 500 /\ upFile' = "present"
              ELSE upPc' = "streaming" /\ upStatus' = 0 /\ upFile' = "present"

\* The body of the 'data' callback for one row: the values it may leave in
\* runningBalance and results.
DataHandler(bank, balance, res, row) ==
  LET nrow == NormalizeRow(row)
  IN  IF LookupThrows(nrow)
        THEN \* catch (errRow): the row is logged and nothing is pushed
             {[runningBalance |-> balance, results |-> res]}
        ELSE LET e == Extract(bank, nrow)
             IN  {[runningBalance |-> nb,
                   results |-> Append(res, OutRow(nrow, nb, e.debit, e.credit))] :
                    nb \in ToFixed2(NextBalance(balance, e.debit, e.credit))}

UploadData(row) ==
  /\ UploadFrame
  /\ upPc = "streaming"
  /\ Len(upFileRows) < MaxRows
  /\ upFileRows' = Append(upFileRows, row)
  /\ \E o \in DataHandler(upBank, runningBalance, results, row) :
       /\ runningBalance' = o.runningBalance
       /\ results' = o.results
  /\ UNCHANGED <<upPc, upBank, upOpening, upStatus, upFile>>

UploadEnd ==
  /\ UploadFrame
  /\ upPc = "streaming"
  /\ upPc' = "responded"
  /\ upStatus' = 200
  /\ upFile' = "deleted"
  /\ UNCHANGED <<upBank, upOpening, upFileRows, results, runningBalance>>

\* The 'error' callback, registered on the parser that pipe() returns.
UploadError ==
  /\ UploadFrame
  /\ upPc = "streaming"
  /\ upPc' = "responded"
  /\ upStatus' = 500
  /\ upFile' = "deleted"
  /\ UNCHANGED <<upBank, upOpening, upFileRows, results, runningBalance>>

\* An 'error' event of the file's read stream: pipe() does not pass it on to
\* the parser and the read stream has no listener, so the event is thrown and
\* the process ends with the request unanswered.
UploadReadError ==
  /\ UploadFrame
  /\ upPc = "streaming"
  /\ upPc' = "crashed"
  /\ UNCHANGED <<upBank, upOpening, upFileRows, results, runningBalance, upStatus, upFile>>

NextUpload ==
  \/ /\ upPc = "idle"
     /\ \E hasFile \in BOOLEAN, bank \in UploadBankIds, opening \in OpeningBalances,
            parserBound \in BOOLEAN :
          UploadStatement(hasFile, bank, opening, parserBound)
  \/ \E row \in UploadRows : UploadData(row)
  \/ UploadEnd
  \/ UploadError
  \/ UploadReadError

(***************************************************************************)
(* The entries table and its API.  A numeric cell is <<n>> for the number  *)
(* n and <<>> for no number: SQL NULL in the table, NaN in the handler     *)
(* (sqlite3 stores a NaN as NULL, and parseFloat(null) is NaN).            *)
(***************************************************************************)
NoNum == <<>>

Num(n) == <<n>>

IsNum(c) == c # NoNum

\* a - b + c on numbers that may be NaN
SubAdd(a, b, c) ==
  IF IsNum(a) /\ IsNum(b) /\ IsNum(c) THEN Num(a[1] - b[1] + c[1]) ELSE NoNum

\* x || null for a number x: 0 and NaN are falsy
OrNull(c) == IF IsNum(c) /\ c[1] # 0 THEN c ELSE NoNum

\* A cell read as an amount of the ledger: NULL counts as zero.
CellOrZero(c) == IF IsNum(c) THEN c[1] ELSE 0

\* x ? parseFloat(x) : 0 for a number or an absent field of a JSON body
BodyAmount(c) == IF IsNum(c) /\ c[1] # 0 THEN c ELSE Num(0)

\* r.debit ? parseFloat(r.debit) : 0 for a CSV cell (text or undefined)
CsvAmount(val) ==
  IF val = Undefined \/ val = <<>> THEN Num(0)
  ELSE LET n == parseFloat(val) IN IF n.nan THEN NoNum ELSE Num(n.v)

\* r.debit of a parsed row: the property under the exact name
Prop(row, k) == IF HasOwn(row, k) THEN Get(row, k) ELSE Undefined

\* SELECT balance FROM entries ORDER BY id DESC LIMIT 1, then
\* row ? parseFloat(row.balance) : (opening_balance ? parseFloat(opening_balance) : 0)
LastBalance(tbl, opening) ==
  IF tbl # <<>> THEN tbl[Len(tbl)].balance ELSE BodyAmount(opening)

\* lastBalance - debit + credit
NewBalance(last, debit, credit) == SubAdd(last, debit, credit)

\* One row of the table.  via, prev, opening and first are history: the
\* operation that wrote the balance, the balance it started from, whether it
\* found no entry before it and, if so, the opening balance its request carried.
EntryRow(id, debit, credit, balance, via, prev, opening, first) ==
  [id |-> id, debit |-> debit, credit |-> credit, balance |-> balance,
   via |-> via, prev |-> prev, first |-> first,
   opening |-> IF first THEN opening ELSE NoNum]

DbInit ==
  /\ entries = <<>>
  /\ nextId = 1
  /\ pending = [s \in 1..MaxInflight |-> [busy |-> FALSE]]

\* Amounts of a JSON body: [debit, credit] (thousandths).
EntryBodies == {<<100000, 0>>, <<0, 5>>}

\* POST /api/entry, first callback: the SELECT has run, newBalance is computed
\* and the INSERT is handed to the database.
PostEntryRead(s, body, opening) ==
  /\ EntriesFrame
  /\ ~pending[s].busy
  /\ \A t \in 1..(s - 1) : pending[t].busy
  /\ nextId + Cardinality({t \in 1..MaxInflight : pending[t].busy}) <= MaxEntries
  /\ LET debit  == Num(body[1])
         credit == Num(body[2])
         last   == LastBalance(entries, Num(opening))
         nb     == NewBalance(last, BodyAmount(debit), BodyAmount(credit))
     IN  pending' = [pending EXCEPT ![s] =
                       [busy |-> TRUE, debit |-> OrNull(debit), credit |-> OrNull(credit),
                        newBalance |-> nb, prev |-> last, first |-> (entries = <<>>),
                        opening |-> IF entries = <<>> THEN Num(opening) ELSE NoNum]]
  /\ UNCHANGED <<entries, nextId>>

\* POST /api/entry: the INSERT runs.
PostEntryInsert(s) ==
  /\ EntriesFrame
  /\ pending[s].busy
  /\ LET p == pending[s]
     IN  entries' = Append(entries,
                      EntryRow(nextId, p.debit, p.credit, p.newBalance, "post",
                               p.prev, p.opening, p.first))
  /\ nextId' = nextId + 1
  /\ pending' = [pending EXCEPT ![s] = [busy |-> FALSE]]

\* Bodies of PUT /api/entry/:id: [debit, credit, balance] as sent by the client.
PutBodies == {<<Num(70000), NoNum, Num(430000)>>}

\* PUT /api/entry/:id: the row is overwritten with the body's values.
PutEntry(id, body) ==
  /\ EntriesFrame
  /\ entries' = [i \in 1..Len(entries) |->
                   IF entries[i].id = id
                     THEN [entries[i] EXCEPT !.debit = body[1], !.credit = body[2],
                                             !.balance = body[3], !.via = "put"]
                     ELSE entries[i]]
  /\ UNCHANGED <<nextId, pending>>

\* DELETE /api/entry/:id
DeleteEntry(id) ==
  /\ EntriesFrame
  /\ entries' = SelectSeq(entries, LAMBDA e : e.id # id)
  /\ UNCHANGED <<nextId, pending>>

\* Rows of an imported file.
ImportRows ==
  {<<Col("debit", Txt100), Col("credit", TxtEmpty)>>,
   <<Col("credit", TxtHalfCent)>>,
   <<Col("debit", TxtWord)>>}

\* The forEach of the 'end' callback of POST /api/import-csv, from row i on:
\* the rows to insert, given the balance carried so far.
RECURSIVE ImportFrom(_, _, _, _, _)
ImportFrom(rows, i, lastBalance, id, opening) ==
  IF i > Len(rows) THEN <<>>
  ELSE LET debit  == CsvAmount(Prop(rows[i], "debit"))
           credit == CsvAmount(Prop(rows[i], "credit"))
           nb     == NewBalance(lastBalance, debit, credit)
       IN  <<EntryRow(id, OrNull(debit), OrNull(credit), nb, "import",
                      lastBalance, opening, i = 1)>>
           \o ImportFrom(rows, i + 1, nb, id + 1, opening)

\* POST /api/import-csv: the 'end' callback (let lastBalance = 0).
ImportCsv(rows, opening) ==
  /\ EntriesFrame
  /\ nextId + Len(rows) - 1 <= MaxEntries
  /\ entries' = entries \o ImportFrom(rows, 1, Num(0), nextId, Num(opening))
  /\ nextId' = nextId + Len(rows)
  /\ UNCHANGED pending

ImportFiles ==
  {<<>>} \cup {<<r>> : r \in ImportRows}
         \cup {<<r1, r2>> : r1 \in ImportRows, r2 \in ImportRows}

NextEntries ==
  \/ \E s \in 1..MaxInflight, body \in EntryBodies, opening \in OpeningBalances :
       PostEntryRead(s, body, opening)
  \/ \E s \in 1..MaxInflight : PostEntryInsert(s)
  \/ \E id \in 1..MaxEntries, body \in PutBodies : PutEntry(id, body)
  \/ \E id \in 1..MaxEntries : DeleteEntry(id)
  \/ \E rows \in ImportFiles, opening \in OpeningBalances :
       Len(rows) <= MaxImport /\ ImportCsv(rows, opening)

(***************************************************************************)
(* POST /api/generate-pdf and the bank templates.  Lengths are in 1/1000   *)
(* of a point.  The handler runs to completion in one call; it is modelled *)
(* in steps (header, one step per entry of the row loop, footer and end)   *)
(* so that every row can be observed as it is drawn.                       *)
(*                                                                         *)
(* ops abstracts the calls on the document to one record per region:       *)
(*   "bar"      a filled rectangle of the page decoration                  *)
(*   "image"    doc.image of the logo        "fallback" the text logo      *)
(*   "header"   the texts of the first-page header region                  *)
(*   "title"    the title line of a PNB continuation page                  *)
(*   "thead"    the column-heading row       "row" one body row            *)
(*   "addPage"  doc.addPage()                "footer" a footer element     *)
(*   "footbar"  the red bar at the bottom of a BANDHAN page                *)
(*   "watermark" applyDemoWatermark in an AXIS footer page break           *)
(*   "text"     a text of the generic document                            *)
(*   "end"      doc.end()                                                  *)
(***************************************************************************)
NoBank == "(absent)"

\* new PDFDocument({ margin: 40, size: "A4" })
PageHeight == 841890

PageMargin == 40000

Op(op, page, y, h, idx) == [op |-> op, page |-> page, y |-> y, h |-> h, idx |-> idx]

\* doc.page.height - limit of the page-break check of each template
PageLimit(bank) ==
  CASE bank \in {"PNB", "CENTRAL", "SBI", "IDFC"} -> PageHeight - 80000
    [] bank = "BANDHAN" -> PageHeight - 120000
    [] bank = "ICICI"   -> PageHeight - PageMargin - 60000
    [] bank = "AXIS"    -> PageHeight - 100000
    [] bank = "HDFC"    -> PageHeight - 250000

\* Height of the column-heading row drawn by drawTableHeader.
TheadHeight(bank) ==
  CASE bank \in {"PNB"} -> 26000
    [] bank \in {"BANDHAN", "AXIS", "IDFC"} -> 24000
    [] bank \in {"CENTRAL", "SBI"} -> 30000
    [] bank \in {"ICICI", "HDFC"} -> 20000

\* (every template repeats the heading row)
RepeatsHeaderAlways(bank) == bank \in Banks

\* Templates that call drawTableHeader after doc.addPage() in the row loop.
RepeatsHeader(bank) == bank \notin {"PNB", "IDFC"}

\* The y passed to drawTableHeader on a continuation page.
ContHeaderY(bank) ==
  CASE bank \in {"BANDHAN", "CENTRAL"} -> 100000
    [] bank = "ICICI" -> 40000
    [] bank = "SBI"   -> 50000
    [] bank = "AXIS"  -> 60000
    [] bank = "HDFC"  -> 80000
    [] OTHER          -> 0

\* (the height of the heading row is not added)
ContStartAtHeaderY(bank) ==
  CASE bank = "PNB"  -> 40000 + 40000
    [] bank = "IDFC" -> 40000
    [] OTHER         -> ContHeaderY(bank)

\* tableY after the page-break branch of the row loop.
ContStart(bank) ==
  CASE bank = "PNB"  -> 40000 + 40000
    [] bank = "IDFC" -> 40000
    [] OTHER         -> ContHeaderY(bank) + TheadHeight(bank)

\* Templates that redraw the logo on a continuation page.
RedrawsLogo(bank) == bank \in {"BANDHAN", "CENTRAL", "HDFC"}

\* Bottom of the first page's column-heading row.  PNB, BANDHAN, CENTRAL,
\* AXIS, HDFC and IDFC add fixed steps to y, more when the account holds the
\* optional address lines ("extra"); ICICI and SBI start the table at doc.y,
\* given here as left by the header texts (logo present).
FirstTableTop(bank, account) ==
  LET x == account = "extra"
  IN  CASE bank = "PNB"     -> 459000 + (IF x THEN 14000 ELSE 0)
        [] bank = "BANDHAN" -> 658000
        [] bank = "CENTRAL" -> 311000 + (IF x THEN 24000 ELSE 0)
        [] bank = "ICICI"   -> 400900
        [] bank = "SBI"     -> 376194 + (IF x THEN 12000 ELSE 0)
        [] bank = "AXIS"    -> 224000 + 20000
        [] bank = "HDFC"    -> 312000
        [] bank = "IDFC"    -> 272000 + (IF x THEN 10000 ELSE 0)

\* The font left by the first drawTableHeader and the code up to the row loop.
FirstFont(bank) ==
  CASE bank \in {"PNB", "BANDHAN", "SBI", "AXIS"} -> <<"Helvetica", 9>>
    [] OTHER -> <<"Helvetica", 8>>

\* The font after the cells of a row are drawn, from the font before them.
RowFont(bank, font) ==
  CASE bank \in {"PNB", "BANDHAN"} -> <<"Helvetica", 8>>
    [] bank \in {"CENTRAL", "HDFC", "IDFC"} -> <<"Helvetica", 7>>
    [] bank = "SBI"   -> <<"Helvetica", 9>>
    [] bank = "ICICI" -> <<font[1], 8>>   \* doc.fontSize(8)
    [] bank = "AXIS"  -> <<font[1], 8>>   \* doc.fontSize(8).text(...)

\* The font after the page-break branch (title, watermark, drawTableHeader).
ContFont(bank, font) ==
  CASE bank = "PNB"     -> <<"Helvetica", 12>>
    [] bank = "BANDHAN" -> <<"Helvetica-Bold", 9>>
    [] bank \in {"CENTRAL", "ICICI", "HDFC"} -> <<"Helvetica", 8>>
    [] bank = "SBI"     -> <<"Helvetica", 9>>
    [] bank = "AXIS"    -> <<"Helvetica-Bold", 9>>
    [] bank = "IDFC"    -> <<"Helvetica-Bold", 70>>  \* applyDemoWatermark

\* currentLineHeight(true) of the standard fonts: (ascender - descender +
\* line gap) / 1000 of the size, 1.156 for Helvetica, 1.19 for Helvetica-Bold.
LineHeight(font) == (IF font[1] = "Helvetica" THEN 1156 ELSE 1190) * font[2]

\* doc.heightOfString of a text of n lines in the current font.
HeightOfString(n, font) == n * LineHeight(font)

Max(a, b) == IF a >= b THEN a ELSE b

\* let rowHeight = Math.max(<measured height> + padding, minimum)
RowHeight(bank, r, font) ==
  LET desc == HeightOfString(r.lines, font)
      any  == HeightOfString(Max(r.lines, r.otherLines), font)
  IN  CASE bank \in {"PNB", "HDFC", "IDFC"} -> Max(desc + 8000, 22000)
        [] bank = "BANDHAN" -> Max(desc + 10000, 28000)
        [] bank = "CENTRAL" -> Max(desc + 10000, 24000)
        [] bank = "AXIS"    -> Max(desc + 8000, 18000)
        [] bank = "ICICI"   -> Max(0, any + 6000)
        [] bank = "SBI"     -> Max(Max(0, any + 10000), 28000)

\* Transactions: the number of lines of the description cell, the largest
\* number of lines of the other cells, and null for a null list element.
Txn(isNull, lines, otherLines) ==
  [isNull |-> isNull, lines |-> lines, otherLines |-> otherLines]

TxnSet ==
  {Txn(FALSE, 1, 1), Txn(FALSE, 1, 4), Txn(FALSE, 30, 1), Txn(FALSE, 80, 1), Txn(TRUE, 0, 0)}

TxnLists == UNION {[1..n -> TxnSet] : n \in 0..MaxTxns}

\* if (fs.existsSync(logo)) { try { doc.image(...) } catch (e) {} } else { fallback }
LogoOps(logo, page) ==
  CASE logo = "present" -> <<Op("image", page, 0, 0, 0)>>
    [] logo = "broken"  -> <<>>
    [] logo = "missing" -> <<Op("fallback", page, 0, 0, 0)>>

\* What a template draws before it first reads a field of account.
BeforeAccount(bank, logo) ==
  CASE bank = "PNB"  -> <<Op("bar", 1, 0, 45000, 0)>> \o LogoOps(logo, 1)
    [] bank = "IDFC" -> <<Op("header", 1, 20000, 0, 0)>> \o LogoOps(logo, 1)
    [] OTHER         -> LogoOps(logo, 1)

PdfInit ==
  /\ genPc = "idle"
  /\ genReqBank = NoBank
  /\ genTemplate = "none"
  /\ genAccount = "plain"
  /\ genLogo = "present"
  /\ genContLogo = "present"
  /\ genTxns = <<>>
  /\ genIdx = 1
  /\ tableY = 0
  /\ pageNo = 1
  /\ docFont = <<"Helvetica", 12>>
  /\ ops = <<>>
  /\ genStatus = 0

\* const { bank = "PNB", account = {}, transactions = [] } = req.body
BankOf(reqBank) == IF reqBank = NoBank THEN "PNB" ELSE reqBank

\* The states of the file a template reads for the logo of a continuation
\* page: BANDHAN reads the file of its first page again; CENTRAL reads
\* CENTRAL.png (first page: CBI.png) and HDFC reads HDFC.png (first page:
\* HDFC.jpg); the other templates read none.
ContLogoStates(bank, logo) ==
  IF bank \in {"CENTRAL", "HDFC"} THEN {"present", "missing", "broken"} ELSE {logo}

\* The handler up to the row loop of the template (or to doc.end() when no
\* bank template runs).
GeneratePdf(reqBank, account, txns, logo, contLogo) ==
  LET bank == BankOf(reqBank)
  IN  /\ genPc = "idle"
      /\ PdfFrame
      /\ contLogo \in ContLogoStates(bank, logo)
      /\ genContLogo' = contLogo
      /\ genReqBank' = reqBank
      /\ genAccount' = account
      /\ genTxns' = txns
      /\ genLogo' = logo
      /\ genIdx' = 1
      /\ pageNo' = 1
      /\ IF bank \in Banks
           THEN /\ genTemplate' = bank
                /\ IF account = "null"
                     THEN \* TypeError on the first account.<field>
                          /\ ops' = BeforeAccount(bank, logo)
                          /\ genPc' = "threw"
                          /\ genStatus' = 500
                          /\ UNCHANGED <<tableY, docFont>>
                     ELSE /\ ops' = BeforeAccount(bank, logo)
                                      \o <<Op("header", 1, 0, 0, 0),
                                           Op("thead", 1, FirstTableTop(bank, account) - TheadHeight(bank),
                                              TheadHeight(bank), 0)>>
                          /\ tableY' = FirstTableTop(bank, account)
                          /\ docFont' = FirstFont(bank)
                          /\ genPc' = "rows"
                          /\ genStatus' = 200
           ELSE IF LookupTruthy(bank)
             THEN \* an inherited member is called as the template and draws nothing
                  /\ genTemplate' = "inherited"
                  /\ ops' = <<Op("end", 1, 0, 0, 0)>>
                  /\ genPc' = "ended"
                  /\ genStatus' = 200
                  /\ UNCHANGED <<tableY, docFont>>
             ELSE /\ genTemplate' = "generic"
                  /\ ops' = <<Op("text", 1, 0, 0, 0)>>
                            \o (IF account # "null"
                                  THEN <<Op("text", 1, 0, 0, 0), Op("text", 1, 0, 0, 0)>>
                                  ELSE <<>>)
                            \o <<Op("end", 1, 0, 0, 0)>>
                  /\ genPc' = "ended"
                  /\ genStatus' = 200
                  /\ docFont' = <<"Helvetica", IF account # "null" THEN 10 ELSE 14>>
                  /\ UNCHANGED tableY

\* The page-break branch of the row loop: what is drawn before the row.
PageBreakOps(bank, logo, page) ==
  (IF bank = "BANDHAN" THEN <<Op("footbar", page, PageHeight - 30000, 30000, 0)>> ELSE <<>>)
  \o <<Op("addPage", page + 1, 0, 0, 0)>>
  \o (IF bank = "PNB" THEN <<Op("title", page + 1, 40000, 0, 0)>> ELSE <<>>)
  \o (IF RedrawsLogo(bank)
        THEN (IF logo = "present" THEN <<Op("image", page + 1, 0, 0, 0)>> ELSE <<>>)
        ELSE <<>>)
  \o (IF RepeatsHeader(bank)
        THEN <<Op("thead", page + 1, ContHeaderY(bank), TheadHeight(bank), 0)>>
        ELSE <<>>)

\* if (tableY + rowHeight > doc.page.height - <limit>)
NeedsPageBreak(bank, y, rowHeight) == y + rowHeight > PageLimit(bank)

\* (the row rectangle is drawn twice)
DrawRowTwice(page, y, rowHeight, idx) ==
  <<Op("row", page, y, rowHeight, idx), Op("row", page, y, rowHeight, idx)>>

\* doc.rect(<left>, tableY, <tableWidth>, rowHeight).stroke() and the cells
DrawRow(page, y, rowHeight, idx) == <<Op("row", page, y, rowHeight, idx)>>

\* One iteration of entries.forEach of the running template.
TemplateRow ==
  /\ PdfFrame
  /\ genPc = "rows"
  /\ genIdx <= Len(genTxns)
  /\ LET r == genTxns[genIdx]
     IN  IF r.isNull
           THEN \* TypeError on r.narration / r.description
                /\ genPc' = "threw"
                /\ UNCHANGED <<genIdx, tableY, pageNo, docFont, ops>>
           ELSE LET rowHeight == RowHeight(genTemplate, r, docFont)
                    brk       == NeedsPageBreak(genTemplate, tableY, rowHeight)
                    y         == IF brk THEN ContStart(genTemplate) ELSE tableY
                    page      == IF brk THEN pageNo + 1 ELSE pageNo
                    font      == IF brk THEN ContFont(genTemplate, docFont) ELSE docFont
                IN  /\ ops' = ops \o (IF brk THEN PageBreakOps(genTemplate, genContLogo, pageNo) ELSE <<>>)
                                  \o DrawRow(page, y, rowHeight, genIdx)
                    /\ tableY' = y + rowHeight
                    /\ pageNo' = page
                    /\ docFont' = RowFont(genTemplate, font)
                    /\ genIdx' = genIdx + 1
                    /\ genPc' = "rows"
  /\ UNCHANGED <<genReqBank, genTemplate, genAccount, genLogo, genContLogo, genTxns,
                 genStatus>>

\* The legends.forEach of the ICICI and AXIS footers: n lines 12 apart from
\* y, with one doc.addPage() before the first line that starts below page
\* height - 40 (the lines after it restart at 60).
LegendOps(bank, n, y, page) ==
  LET bottom == PageHeight - 40000
      brk    == y + 12000 * (n - 1) > bottom
      watermark == IF bank = "AXIS" THEN <<Op("watermark", page + 1, 0, 0, 0)>> ELSE <<>>
  IN  IF ~brk THEN <<Op("footer", page, y, 12000 * n, 0)>>
      ELSE (IF y > bottom THEN <<>> ELSE <<Op("footer", page, y, 0, 0)>>)
           \o <<Op("addPage", page + 1, 0, 0, 0)>> \o watermark
           \o <<Op("footer", page + 1, 60000, 0, 0)>>

\* Height of the four disclaimer paragraphs of the AXIS footer and the gaps
\* after them (about 11 lines of 7 pt text in a width of 520, plus 8+8+8+15).
AxisDisclaimersHeight == 11 * LineHeight(<<"Helvetica", 7>>) + 39000

\* What a template draws after its row loop, from tableY = y on page.
FooterOps(bank, y, page) ==
  CASE bank = "ICICI" ->
         LET yPos == y + 20000
             brk  == yPos > PageHeight - 250000
             y1   == IF brk THEN 60000 ELSE yPos
             p1   == IF brk THEN page + 1 ELSE page
             legends == LegendOps(bank, 29, y1 + 103000, p1)
         IN  (IF brk THEN <<Op("addPage", page + 1, 0, 0, 0)>> ELSE <<>>)
             \o <<Op("footer", p1, y1, 85000, 0)>>       \* Page Total
             \o <<Op("footer", p1, y1 + 85000, 18000, 0)>> \* Legends title
             \o legends
             \o <<Op("footer", legends[Len(legends)].page, PageHeight - 40000, 0, 0)>>
    [] bank = "AXIS" ->
         LET t    == y + 2000 + 20000 + 35000
             brk  == t > PageHeight - 350000
             y1   == IF brk THEN 60000 ELSE t
             p1   == IF brk THEN page + 1 ELSE page
             legends == LegendOps(bank, 15, y1 + AxisDisclaimersHeight + 15000, p1)
         IN  <<Op("footer", page, y + 2000, 40000, 0)>>   \* total and closing rows
             \o (IF brk THEN <<Op("addPage", page + 1, 0, 0, 0),
                               Op("watermark", page + 1, 0, 0, 0)>> ELSE <<>>)
             \o <<Op("footer", p1, y1, AxisDisclaimersHeight, 0)>>
             \o legends
             \o <<Op("footer", legends[Len(legends)].page, 0, 0, 0)>> \* End of Statement
    [] bank = "BANDHAN" ->
         <<Op("footer", page, y + 30000, 0, 0),
           Op("footbar", page, PageHeight - 30000, 30000, 0)>>
    [] OTHER -> <<Op("footer", page, y, 0, 0)>>

\* After the row loop: the footer region of the template, the return to the
\* handler and doc.end().
TemplateFooter ==
  /\ PdfFrame
  /\ genPc = "rows"
  /\ genIdx > Len(genTxns)
  /\ LET footer == FooterOps(genTemplate, tableY, pageNo)
         last   == footer[Len(footer)].page
     IN  /\ ops' = ops \o footer \o <<Op("end", last, 0, 0, 0)>>
         /\ pageNo' = last
  /\ genPc' = "ended"
  /\ UNCHANGED <<genReqBank, genTemplate, genAccount, genLogo, genContLogo, genTxns,
                 genIdx, tableY, docFont, genStatus>>

NextPdf ==
  \/ /\ genPc = "idle"
     /\ \E reqBank \in BankIds \cup {NoBank}, account \in {"plain", "extra", "null"},
           txns \in TxnLists, logo \in {"present", "missing", "broken"},
           contLogo \in {"present", "missing", "broken"} :
          GeneratePdf(reqBank, account, txns, logo, contLogo)
  \/ TemplateRow
  \/ TemplateFooter

(***************************************************************************)
(* The totals the templates print (opening balance, total debit, total     *)
(* credit, closing balance), as a function of the account object and the   *)
(* entries passed to the template.  Amounts are cells: <<n>> or <<>> for a  *)
(* field that is absent (or falsy).  PNB, CENTRAL and SBI print no totals.  *)
(***************************************************************************)
MaxSummaryEntries == 2

TotalsBanks == {"BANDHAN", "ICICI", "AXIS", "HDFC", "IDFC"}

LedgerEntry(debit, credit, balance) ==
  [debit |-> debit, credit |-> credit, balance |-> balance]

SummaryEntries ==
  {LedgerEntry(Num(100000), NoNum, Num(400000)),
   LedgerEntry(NoNum, Num(250000), Num(650000)),
   LedgerEntry(Num(50000), NoNum, Num(600000))}

SummaryEntryLists == UNION {[1..n -> SummaryEntries] : n \in 0..MaxSummaryEntries}

AccountTotals(opening, debit, credit, closing) ==
  [opening_balance |-> opening, total_debit |-> debit,
   total_credit |-> credit, closing_balance |-> closing]

SummaryAccounts ==
  {AccountTotals(NoNum, NoNum, NoNum, NoNum),
   AccountTotals(Num(500000), Num(999000), Num(888000), Num(777000)),
   AccountTotals(NoNum, Num(999000), NoNum, NoNum)}

\* x || <fallback>
OrElse(cell, fallback) == IF IsNum(cell) /\ cell[1] # 0 THEN cell[1] ELSE fallback

\* entries.forEach(e => { if (e.<field>) sum += Number(e.<field>) })
RECURSIVE SumField(_, _)
SumField(es, field) ==
  IF es = <<>> THEN 0
  ELSE OrElse(Head(es)[field], 0) + SumField(Tail(es), field)

\* The balance of entry i when it is truthy, else 0 (the initial value).
BalanceAt(es, i) == IF es = <<>> THEN 0 ELSE OrElse(es[i].balance, 0)

\* The caller's pair of totals when both are given, else the sums.
TotalsOrSums(account, es) ==
  IF ~IsNum(account.total_debit) \/ account.total_debit[1] = 0
     \/ ~IsNum(account.total_credit) \/ account.total_credit[1] = 0
    THEN [debit |-> SumField(es, "debit"), credit |-> SumField(es, "credit")]
    ELSE [debit |-> account.total_debit[1], credit |-> account.total_credit[1]]

Totals(opening, debit, credit, closing) ==
  [opening |-> opening, debit |-> debit, credit |-> credit, closing |-> closing]

TemplateTotals(bank, account, es) ==
  CASE bank = "BANDHAN" ->
         Totals(Num(BalanceAt(es, 1)), Num(SumField(es, "debit")),
                Num(SumField(es, "credit")), Num(BalanceAt(es, Len(es))))
    [] bank = "ICICI" ->
         Totals(Num(OrElse(account.opening_balance, 0)),
                Num(TotalsOrSums(account, es).debit),
                Num(TotalsOrSums(account, es).credit),
                Num(OrElse(account.closing_balance, 0)))
    [] bank = "AXIS" ->
         Totals(Num(OrElse(account.opening_balance, 200300)),
                Num(TotalsOrSums(account, es).debit),
                Num(TotalsOrSums(account, es).credit),
                Num(OrElse(account.closing_balance, 3843000)))
    [] bank = "HDFC" ->
         Totals(Num(OrElse(account.opening_balance, 2323000)),
                NoNum,
                Num(SumField(es, "credit")),
                Num(OrElse(account.closing_balance, BalanceAt(es, Len(es)))))
    [] bank = "IDFC" ->
         Totals(Num(OrElse(account.opening_balance, 0)),
                Num(OrElse(account.total_debit, 0)),
                Num(OrElse(account.total_credit, 0)),
                Num(OrElse(account.closing_balance, 0)))

SummaryInit ==
  summary = [printed |-> FALSE, bank |-> "BANDHAN",
             account |-> AccountTotals(NoNum, NoNum, NoNum, NoNum),
             entries |-> <<>>, totals |-> Totals(NoNum, NoNum, NoNum, NoNum)]

\* The totals section of a template run on (account, entries).
PrintTotals(bank, account, es) ==
  /\ SummaryFrame
  /\ summary' = [printed |-> TRUE, bank |-> bank, account |-> account,
                 entries |-> es, totals |-> TemplateTotals(bank, account, es)]

NextSummary ==
  \E bank \in TotalsBanks, account \in SummaryAccounts, es \in SummaryEntryLists :
    PrintTotals(bank, account, es)

(***************************************************************************)
(* parseNumberSafe on its own: the cell texts a CSV can hold.              *)
(***************************************************************************)
MaxTextLen == 4

ParseChars == {"1", "5", ".", ",", "(", ")", " ", "-", "a"}

RECURSIVE TextsOfLen(_)
TextsOfLen(n) ==
  IF n = 0 THEN {<<>>}
  ELSE {<<c>> \o t : c \in ParseChars, t \in TextsOfLen(n - 1)}

Txt12abc == <<"1", "2", "a", "b", "c">>
TxtParenWord == <<"(", "a", "b", "c", ")">>
TxtThousands == <<"1", ",", "2", "3", "4", ".", "5", "0">>
TxtParenThousands == <<"(", "1", ",", "2", "3", "4", ".", "5", "0", ")">>
TxtParen500 == <<"(", "5", "0", "0", ")">>

ParseInputs ==
  UNION {TextsOfLen(n) : n \in 0..MaxTextLen}
    \cup {Undefined, Null, TxtWord, Txt12abc, TxtParenWord, TxtInfinity,
          <<"-">> \o TxtInfinity, <<"(">> \o TxtInfinity \o <<")">>,
          TxtThousands, TxtParenThousands, TxtParen500}

ParseInit == parsed = [called |-> FALSE, val |-> Undefined, result |-> 0]

\* One call of parseNumberSafe per behaviour: the function keeps no state, so
\* a second call adds nothing to the first.
ParseNumber(val) ==
  /\ ~parsed.called
  /\ parsed' = [called |-> TRUE, val |-> val, result |-> parseNumberSafe(val)]
  /\ ParseFrame

NextParse == \E val \in ParseInputs : ParseNumber(val)

(***************************************************************************)
(* GET /api/download-csv-template/:bank.                                   *)
(***************************************************************************)
MaxDownloads == 2

\* BANK_CONFIG[bank].fields of the client.
BANK_CONFIG ==
  [b \in Banks |->
     CASE b = "PNB"     -> <<"date", "cheque_no", "withdrawal", "deposit", "balance", "narration">>
       [] b = "CENTRAL" -> <<"post_date", "value_date", "branch_code", "cheque_number",
                             "account_description", "debit", "credit", "balance">>
       [] b = "BANDHAN" -> <<"txn_date", "value_date", "description", "amount", "dr_cr", "balance">>
       [] b = "ICICI"   -> <<"txn_date", "value_date", "description", "ref_no", "debit", "credit",
                             "balance">>
       [] b = "SBI"     -> <<"date", "description", "debit", "credit", "balance">>
       [] b = "HDFC"    -> <<"date", "narration", "ref_no", "withdrawal", "deposit", "balance">>
       [] b = "AXIS"    -> <<"txn_date", "cheque_no", "particulars", "debit", "credit", "balance",
                             "init_br">>
       [] b = "IDFC"    -> <<"date", "value_date", "particulars", "cheque_no", "debit", "credit",
                             "balance">>]

\* Object.keys(bankTemplates)
bankTemplateKeys == {"PNB", "BANDHAN", "CENTRAL", "ICICI", "SBI", "AXIS", "HDFC", "IDFC"}

\* The lines of the text csvTemplates[bank]: each ends with "\n", each is the
\* list of its comma-separated cells.
CsvLines(bank) == <<csvTemplates[bank]>>

\* The statuses the framework can give a response whose body is a function
\* (res.send of an inherited member): sent as it is, or an internal error.
InheritedSendStatuses == {200, 500}

DownloadInit == downloads = <<>>

DownloadCsvTemplate(bank, st) ==
  /\ Len(downloads) < MaxDownloads
  /\ downloads' = Append(downloads,
       IF ~LookupTruthy(bank)
         THEN [bank |-> bank, status |-> 400, type |-> "json", lines |-> <<>>,
               availableBanks |-> DOMAIN csvTemplates]
       ELSE IF bank \in Banks
         THEN [bank |-> bank, status |-> 200, type |-> "csv", lines |-> CsvLines(bank),
               availableBanks |-> {}]
         ELSE [bank |-> bank, status |-> st, type |-> "csv", lines |-> <<>>,
               availableBanks |-> {}])
  /\ DownloadFrame

NextDownload ==
  \E bank \in BankIds, st \in InheritedSendStatuses : DownloadCsvTemplate(bank, st)

(***************************************************************************)
(* POST /api/import-csv as a request: the uploaded file, the rows the      *)
(* parser emits, the 'end' callback and the response.  No 'error' listener *)
(* is registered on the read stream or on the parser.                      *)
(***************************************************************************)
ImportInit ==
  /\ impPc = "idle"
  /\ impRows = <<>>
  /\ impStatus = 0
  /\ impFile = "none"

ImportRequest(hasFile) ==
  /\ ImportFrame
  /\ impPc \in {"idle", "responded"}
  /\ impRows' = <<>>
  /\ IF ~hasFile
       THEN impPc' = "responded" /\ impStatus' = 400 /\ impFile' = "none"
       ELSE impPc' = "reading" /\ impStatus' = 0 /\ impFile' = "present"
  /\ UNCHANGED <<entries, nextId>>

\* .on("data", (row) => results.push(row))
ImportData(row) ==
  /\ ImportFrame
  /\ impPc = "reading"
  /\ Len(impRows) < MaxImport
  /\ nextId + Len(impRows) <= MaxEntries
  /\ impRows' = Append(impRows, row)
  /\ UNCHANGED <<impPc, impStatus, impFile, entries, nextId>>

\* The 'end' callback: the inserts, the unlink and the response.
ImportEnd ==
  /\ ImportFrame
  /\ impPc = "reading"
  /\ entries' = entries \o ImportFrom(impRows, 1, Num(0), nextId, Num(0))
  /\ nextId' = nextId + Len(impRows)
  /\ impFile' = "deleted"
  /\ impPc' = "responded"
  /\ impStatus' = 200
  /\ UNCHANGED impRows

\* An 'error' event of the read stream or of the parser: no listener is
\* registered, so the event is thrown and the process ends with the request
\* unanswered and the file in place.
ImportStreamError ==
  /\ ImportFrame
  /\ impPc = "reading"
  /\ impPc' = "crashed"
  /\ UNCHANGED <<impRows, impStatus, impFile, entries, nextId>>

NextImport ==
  \/ \E hasFile \in BOOLEAN : ImportRequest(hasFile)
  \/ \E row \in ImportRows : ImportData(row)
  \/ ImportEnd
  \/ ImportStreamError

(***************************************************************************)
(* GET and POST /api/account.  The POST handler reads the first record in  *)
(* the callback of db.get and writes in a later db.run.                    *)
(***************************************************************************)
MaxAccountPosts == 3

\* req.body.name, standing for the sixteen fields of the body.
AccountNames == {"A", "B"}

NoRow == 0

AccountInit ==
  /\ accountInfo = <<>>
  /\ acctPending = [s \in 1..MaxInflight |-> [busy |-> FALSE]]
  /\ acctPosts = 0
  /\ acctGot = <<>>

\* SELECT * FROM account_info LIMIT 1: the id of the row, NoRow when empty.
FirstAccountRow == IF accountInfo = <<>> THEN NoRow ELSE accountInfo[1].id

\* GET /api/account: res.json(row || {}), as <<>> or <<row>>
GetAccount ==
  /\ AccountFrame
  /\ acctGot' = IF accountInfo = <<>> THEN <<>> ELSE <<accountInfo[1]>>
  /\ acctGot' # acctGot
  /\ UNCHANGED <<accountInfo, acctPending, acctPosts>>

\* POST /api/account, callback of db.get: the branch is chosen on the row read.
PostAccountRead(s, name) ==
  /\ AccountFrame
  /\ ~acctPending[s].busy
  /\ \A t \in 1..(s - 1) : acctPending[t].busy
  /\ acctPosts < MaxAccountPosts
  /\ acctPosts' = acctPosts + 1
  /\ acctPending' = [acctPending EXCEPT ![s] =
                       [busy |-> TRUE, name |-> name, row |-> FirstAccountRow]]
  /\ UNCHANGED <<accountInfo, acctGot>>

\* POST /api/account: the UPDATE ... WHERE id = row.id or the INSERT runs.
PostAccountWrite(s) ==
  /\ AccountFrame
  /\ acctPending[s].busy
  /\ LET p == acctPending[s]
     IN  accountInfo' =
           IF p.row # NoRow
             THEN [i \in 1..Len(accountInfo) |->
                     IF accountInfo[i].id = p.row
                       THEN [accountInfo[i] EXCEPT !.name = p.name]
                       ELSE accountInfo[i]]
             ELSE Append(accountInfo, [id |-> Len(accountInfo) + 1, name |-> p.name])
  /\ acctPending' = [acctPending EXCEPT ![s] = [busy |-> FALSE]]
  /\ UNCHANGED <<acctPosts, acctGot>>

NextAccount ==
  \/ GetAccount
  \/ \E s \in 1..MaxInflight, name \in AccountNames : PostAccountRead(s, name)
  \/ \E s \in 1..MaxInflight : PostAccountWrite(s)

vars == <<upVars, dbVars, pdfVars, sumVars, parseVars, dlVars, impVars, acctVars>>

Init ==
  /\ UpInit /\ DbInit /\ PdfInit /\ SummaryInit /\ ParseInit /\ DownloadInit /\ ImportInit
  /\ AccountInit

SpecUpload == Init /\ [][NextUpload]_vars

SpecEntries == Init /\ [][NextEntries]_vars

SpecPdf == Init /\ [][NextPdf]_vars

SpecSummary == Init /\ [][NextSummary]_vars

SpecParse == Init /\ [][NextParse]_vars

SpecDownload == Init /\ [][NextDownload]_vars

SpecImport == Init /\ [][NextImport]_vars

SpecAccount == Init /\ [][NextAccount]_vars

(***************************************************************************)
(* Helpers of the properties.                                              *)
(***************************************************************************)
Reverse(q) == [i \in 1..Len(q) |-> q[Len(q) + 1 - i]]

RECURSIVE SumOf(_)
SumOf(q) == IF q = <<>> THEN 0 ELSE Head(q) + SumOf(Tail(q))

Balances(res) == [i \in 1..Len(res) |-> res[i].balance]

Debits(res) == [i \in 1..Len(res) |-> res[i]._parsed_debit]

Credits(res) == [i \in 1..Len(res) |-> res[i]._parsed_credit]

\* credit - debit of every resolved row
Deltas(res) == [i \in 1..Len(res) |-> res[i]._parsed_credit - res[i]._parsed_debit]

\* Every resolved amount has at most two decimals.
AllCents(res) ==
  \A i \in 1..Len(res) : res[i]._parsed_debit % 10 = 0 /\ res[i]._parsed_credit % 10 = 0

\* The outcomes of the 'data' callback run over rows in order.
RECURSIVE RunRows(_, _, _, _)
RunRows(bank, rows, balance, res) ==
  IF rows = <<>> THEN {[runningBalance |-> balance, results |-> res]}
  ELSE UNION {RunRows(bank, Tail(rows), o.runningBalance, o.results) :
                o \in DataHandler(bank, balance, res, Head(rows))}

\* The balance before row i of an upload's results.
BalanceBefore(res, i) == IF i = 1 THEN 0 ELSE res[i - 1].balance

UploadSucceeded == upPc = "responded" /\ upStatus = 200

RowFailed(row) == LookupThrows(NormalizeRow(row))

(***************************************************************************)
(* Properties.                                                             *)
(***************************************************************************)

\* C1: in every ledger computation (upload-statement, POST /api/entry,
\* import-csv) the balance given to a row is the previous balance minus the
\* row's debit plus its credit, rounded to two decimals at that step.
C1_BalanceRoundedAtEachStep ==
  /\ \A i \in 1..Len(results) :
       results[i].balance \in
         ToFixed2(BalanceBefore(results, i) - results[i]._parsed_debit + results[i]._parsed_credit)
  /\ \A i \in 1..Len(entries) :
       LET e == entries[i]
       IN  (e.via \in {"post", "import"} /\ IsNum(e.balance) /\ IsNum(e.prev))
             => e.balance[1] \in
                  ToFixed2(e.prev[1] - CellOrZero(e.debit) + CellOrZero(e.credit))

\* C2: every ledger path takes the opening balance B as an input, and the
\* first entry's balance is B + credit - debit, for every B.
C2_FirstBalanceFromOpening ==
  /\ results # <<>> =>
       results[1].balance \in
         ToFixed2(upOpening + results[1]._parsed_credit - results[1]._parsed_debit)
  /\ \A i \in 1..Len(entries) :
       LET e == entries[i]
       IN  (e.first /\ e.via \in {"post", "import"} /\ IsNum(e.balance))
             => e.balance[1] = e.opening[1] + CellOrZero(e.credit) - CellOrZero(e.debit)

\* C3: for N rows and opening balance B, the ledger of upload-statement has N
\* entries and its last balance is B + sum(credits) - sum(debits); for PNB,
\* B = 0 and rows (debit 100), (credit 250), (debit 50) the balances are
\* -100.00, 150.00, 100.00.
C3_UploadLastBalanceIsTotal ==
  UploadSucceeded =>
    /\ Len(results) = Len(upFileRows)
    /\ (results # <<>> /\ AllCents(results)) =>
         results[Len(results)].balance
           = upOpening + SumOf(Credits(results)) - SumOf(Debits(results))
    /\ (upBank = "PNB" /\ upOpening = 0
        /\ upFileRows = <<RowDebit100, RowCredit250, RowDebit50>>)
         => Balances(results) = <<0 - 100000, 150000, 100000>>

\* C4 as stated: whenever not all deltas (credit - debit) are zero, the fold
\* over the reversed input yields other intermediate balances.
C4_ReversalChangesBalances ==
  (UploadSucceeded /\ \E i \in 1..Len(results) : Deltas(results)[i] # 0)
    => \A o \in RunRows(upBank, Reverse(upFileRows), 0, <<>>) :
         Balances(o.results) # Balances(results)

\* C4 as amended: whenever the sequence of deltas differs from its own reverse
\* (amounts of at most two decimals), the fold over the reversed input yields
\* other intermediate balances.
C4_ReversalChangesBalancesUnlessPalindrome ==
  (UploadSucceeded /\ AllCents(results) /\ Deltas(results) # Reverse(Deltas(results)))
    => \A o \in RunRows(upBank, Reverse(upFileRows), 0, <<>>) :
         Balances(o.results) # Balances(results)

C4_Witness ==
  /\ UploadSucceeded
  /\ Len(results) = MaxRows
  /\ AllCents(results)
  /\ Deltas(results) # Reverse(Deltas(results))
  /\ \A o \in RunRows(upBank, Reverse(upFileRows), 0, <<>>) :
       Balances(o.results) # Balances(results)

\* C5: upload-statement returns one output row per input row, in input order;
\* a row whose processing fails is kept as a zero-delta entry whose balance is
\* the previous balance.
C5_OneOutputRowPerInputRow ==
  UploadSucceeded =>
    /\ Len(results) = Len(upFileRows)
    /\ \A i \in 1..Len(upFileRows) :
         /\ i <= Len(results)
         /\ results[i].fields
              = SelectSeq(NormalizeRow(upFileRows[i]), LAMBDA p : p.k \notin ComputedKeys)
         /\ RowFailed(upFileRows[i]) =>
              /\ results[i]._parsed_debit = 0
              /\ results[i]._parsed_credit = 0
              /\ results[i].balance = BalanceBefore(results, i)

\* C6: after any sequence of POST, PUT, DELETE /api/entry and import-csv, each
\* stored entry's balance is the balance of the entry before it (by id) plus
\* its credit minus its debit.
C6_StoredLedgerChain ==
  \A i \in 2..Len(entries) :
    (IsNum(entries[i].balance) /\ IsNum(entries[i - 1].balance))
      => entries[i].balance[1]
           = entries[i - 1].balance[1] + CellOrZero(entries[i].credit)
               - CellOrZero(entries[i].debit)

GenFinished == genPc \in {"ended", "threw"}

DrawingOps == SelectSeq(ops, LAMBDA o : o.op # "end")

EndCalls == Len(SelectSeq(ops, LAMBDA o : o.op = "end"))

\* C7: a generation request for an identifier that is no registered bank ends
\* in an error outcome and issues no drawing instruction.
C7_UnknownBankIsFatal ==
  (GenFinished /\ BankOf(genReqBank) \notin Banks)
    => genStatus >= 400 /\ DrawingOps = <<>>

\* C8: the template or extraction rule applied is always the one registered
\* for the identifier the request carries; a request with no identifier or an
\* unregistered one is never processed with any schema.
C8_NoSilentDefault ==
  /\ genTemplate # "none" => (genReqBank \in Banks /\ genTemplate = genReqBank)
  /\ upPc = "streaming" => upBank \in Banks

\* C9: on every exit path of generate-pdf the document is released by exactly
\* one doc.end(), after every drawing call.
C9_EndOnceAfterAllDrawing ==
  GenFinished => (EndCalls = 1 /\ ops[Len(ops)].op = "end")

\* C10: every body row is drawn with start + rowHeight not beyond the
\* template's page-break limit.
C10_RowsWithinPageLimit ==
  \A i \in 1..Len(ops) :
    ops[i].op = "row" => ops[i].y + ops[i].h <= PageLimit(genTemplate)

\* Positions in ops of the body rows, and of row k.
RowIdxs == {i \in 1..Len(ops) : ops[i].op = "row"}

RowPos(k) == CHOOSE i \in RowIdxs : ops[i].idx = k

\* Where the table stood before the body row at position i was handled.
PrevBottom(i) ==
  IF ops[i].idx = 1 THEN FirstTableTop(genTemplate, genAccount)
  ELSE ops[RowPos(ops[i].idx - 1)].y + ops[RowPos(ops[i].idx - 1)].h

\* The page-advance calls between the previous body row and the one at i.
AddPagesBefore(i) ==
  LET from == IF ops[i].idx = 1 THEN 0 ELSE RowPos(ops[i].idx - 1)
  IN  Cardinality({j \in (from + 1)..(i - 1) : ops[j].op = "addPage"})

\* The continuation offsets as the specification lists them.
DeclaredContOffset(bank) ==
  CASE bank = "PNB"     -> 80000
    [] bank = "BANDHAN" -> 124000
    [] bank = "CENTRAL" -> 130000
    [] bank = "ICICI"   -> 60000
    [] bank = "SBI"     -> 80000
    [] bank = "AXIS"    -> 84000
    [] bank = "HDFC"    -> 100000
    [] bank = "IDFC"    -> 40000

\* C11: a body row that does not fit (currentY + rowHeight > page limit) is
\* preceded by exactly one page advance and starts at the template's fixed
\* continuation offset (PNB 80, BANDHAN 124, CENTRAL 130, ICICI 60, SBI 80,
\* AXIS 84, HDFC 100, IDFC 40) whatever was drawn before; a row that fits is
\* preceded by none and starts where the table stood.
C11_OnePageAdvanceAndFixedOffset ==
  \A i \in RowIdxs :
    LET fits == PrevBottom(i) + ops[i].h <= PageLimit(genTemplate)
    IN  /\ AddPagesBefore(i) = (IF fits THEN 0 ELSE 1)
        /\ ops[i].y = (IF fits THEN PrevBottom(i) ELSE DeclaredContOffset(genTemplate))
        /\ ops[i].page = 1 + Cardinality({j \in 1..i : ops[j].op = "addPage"})

C11_Witness ==
  /\ genPc = "ended"
  /\ \E i \in RowIdxs :
       /\ ops[i].page = 3
       /\ genTxns[ops[i].idx].lines = 30
       /\ ops[i].y = DeclaredContOffset(genTemplate)

\* The smallest line height of a font a template draws cells in.
MinLineHeight == LineHeight(<<"Helvetica", 7>>)

\* C12: the height of a body row is max(measured height of the
\* longest-wrapping cell, the template's minimum): it is never below the
\* minimum (at least 18 in every template), it does not decrease when the
\* measured text grows, and a cell of any column that wraps to more lines than
\* the description raises the row height to hold it.
C12_RowHeightIsMaxOfCellsAndMinimum ==
  /\ \A i \in RowIdxs :
       LET r == genTxns[ops[i].idx]
       IN  /\ ops[i].h >= 18000
           /\ r.otherLines > r.lines => ops[i].h >= r.otherLines * MinLineHeight
  /\ genTemplate \in Banks =>
       \A n \in 1..3, size \in {7, 8, 9} :
         RowHeight(genTemplate, Txn(FALSE, n, 1), <<"Helvetica", size>>)
           <= RowHeight(genTemplate, Txn(FALSE, n + 1, 1), <<"Helvetica", size>>)

\* Positions in ops of the column-heading rows drawn on page p.
TheadsOn(p) == {i \in 1..Len(ops) : ops[i].op = "thead" /\ ops[i].page = p}

\* The templates whose policy is to repeat the heading row, as specified.
DeclaredRepeating == {"BANDHAN", "CENTRAL", "ICICI", "SBI", "AXIS", "HDFC"}

\* C13: the column-heading row is emitted once on page 1, before the first
\* body row; on a continuation page opened by the row loop BANDHAN, CENTRAL,
\* ICICI, SBI, AXIS and HDFC emit it exactly once, before the page's first
\* body row, and PNB and IDFC emit none.
C13_TableHeaderPolicy ==
  (genTemplate \in Banks /\ genPc \in {"rows", "ended"}) =>
    /\ Cardinality(TheadsOn(1)) = 1
    /\ \A i \in RowIdxs :
         LET p == ops[i].page
             repeated == p = 1 \/ genTemplate \in DeclaredRepeating
         IN  /\ Cardinality(TheadsOn(p)) = (IF repeated THEN 1 ELSE 0)
             /\ repeated => \A j \in TheadsOn(p) : j < i

C13_Witness ==
  /\ genPc = "ended"
  /\ \E i \in RowIdxs, k \in RowIdxs :
       /\ ops[i].page = 2 /\ ops[k].page = 3
       /\ genTemplate \in DeclaredRepeating
       /\ Cardinality(TheadsOn(2)) = 1 /\ Cardinality(TheadsOn(3)) = 1

\* Positions in ops of the footer elements (totals, disclaimers, legends,
\* end marker, bottom bar), and the last page of the document.
FooterIdxs == {i \in 1..Len(ops) : ops[i].op \in {"footer", "footbar"}}

LastPage == 1 + Cardinality({j \in 1..Len(ops) : ops[j].op = "addPage"})

\* C14: the footer region is emitted only after the last body row and only on
\* the final page: no footer element lies on a page that is followed by
\* another page, and no body row is drawn after a footer element.
C14_FooterOnlyOnFinalPage ==
  genPc = "ended" =>
    \A f \in FooterIdxs :
      /\ ops[f].page = LastPage
      /\ \A i \in RowIdxs : i < f

\* The body rows drawn so far, in drawing order.
RowsDrawn == SelectSeq(ops, LAMBDA o : o.op = "row")

\* C15: for every registered bank and every list of transaction objects the
\* layout emits exactly one body row per transaction, in input order, none
\* skipped and none duplicated.
C15_OneBodyRowPerTransaction ==
  (genTemplate \in Banks /\ genPc \in {"rows", "ended"}) =>
    /\ Len(RowsDrawn) = genIdx - 1
    /\ \A k \in 1..Len(RowsDrawn) : RowsDrawn[k].idx = k
    /\ genPc = "ended" => Len(RowsDrawn) = Len(genTxns)

C15_Witness ==
  /\ genPc = "ended"
  /\ genTemplate \in Banks
  /\ Len(genTxns) = MaxTxns
  /\ Len(RowsDrawn) = MaxTxns
  /\ pageNo >= 2

\* C16: the totals a template prints are computed from the full entry
\* sequence and not from caller-supplied values: total debit = sum of all
\* debits, total credit = sum of all credits, opening and closing balance =
\* the first and the last ledger balance.
C16_TotalsComputedFromEntries ==
  (summary.printed /\ summary.entries # <<>>) =>
    LET es == summary.entries
        t  == summary.totals
    IN  /\ IsNum(t.debit) => t.debit[1] = SumField(es, "debit")
        /\ t.credit[1] = SumField(es, "credit")
        /\ t.opening[1] = es[1].balance[1]
        /\ t.closing[1] = es[Len(es)].balance[1]

\* The pages on which the running template has drawn its branding block:
\* page 1, and every continuation page of a template that redraws the logo.
BrandedPages ==
  {1} \cup (IF genTemplate \in {"BANDHAN", "CENTRAL", "HDFC"}
              THEN {ops[i].page : i \in {j \in 1..Len(ops) : ops[j].op = "addPage"
                                                           /\ \E r \in RowIdxs : r > j}}
              ELSE {})

HasOn(kind, p) == \E i \in 1..Len(ops) : ops[i].op = kind /\ ops[i].page = p

\* C17: when the branding image cannot be placed (file missing, or drawing it
\* fails), the template emits its text fallback instead, on the first page
\* and on every page where it redraws the logo, and generation goes on: a
\* page that should carry branding has the image or the fallback.
C17_LogoOrFallbackOnEveryBrandedPage ==
  (genTemplate \in Banks /\ genPc \in {"rows", "ended"}) =>
    \A p \in BrandedPages : HasOn("image", p) \/ HasOn("fallback", p)

\* The candidate lists of the debit field, per branch of the bank switch.
DebitCandidates(bank) ==
  CASE bank \in {"PNB", "HDFC"} -> <<"withdrawal", "withdrawals", "debit">>
    [] bank \in {"CENTRAL", "ICICI", "SBI", "IDFC", "AXIS"} -> <<"debit", "withdrawals", "withdrawal">>
    [] OTHER -> <<"debit", "withdrawal", "withdrawals">>

\* The lookup as specified: the first candidate, in list order, that some key
\* of the row equals exactly or up to case; of that candidate the value under
\* the exact key when there is one, else under the first key equal up to case.
Matches(nrow, c) == HasOwn(nrow, c) \/ FindKeyCI(nrow, c) # 0

SpecifiedLookup(nrow, candidates) ==
  LET hits == {n \in 1..Len(candidates) : Matches(nrow, candidates[n])}
  IN  IF hits = {} THEN Undefined
      ELSE LET c == candidates[CHOOSE n \in hits : \A m \in hits : n <= m]
           IN  IF HasOwn(nrow, c) THEN Get(nrow, c) ELSE nrow[FindKeyCI(nrow, c)].v

\* The file rows that reached results, in order (a row whose lookup throws
\* leaves none).
KeptRows == SelectSeq(upFileRows, LAMBDA row : ~RowFailed(row))

\* C18: getVal tries the candidates in list order, for each the exact key and
\* then a case-insensitive match, and returns the value of the first hit;
\* undefined (zero) when none matches.  For a row holding "Debit" and "debit"
\* the value under the exact key "debit" is the one returned.
C18_LookupOrder ==
  (upBank # "BANDHAN" /\ Len(results) = Len(KeptRows)) =>
    \A i \in 1..Len(results) :
      LET nrow == NormalizeRow(KeptRows[i])
      IN  /\ getVal(nrow, DebitCandidates(upBank)) = SpecifiedLookup(nrow, DebitCandidates(upBank))
          /\ results[i]._parsed_debit
               = parseNumberSafe(SpecifiedLookup(nrow, DebitCandidates(upBank)))
          /\ KeptRows[i] = RowBothCases => results[i]._parsed_debit = 100000

C18_Witness ==
  /\ UploadSucceeded
  /\ upBank = "PNB"
  /\ upFileRows = <<RowBothCases, RowTwoSynonyms, RowNoAmounts>>
  /\ Debits(results) = <<100000, 50000, 0>>

\* C19: in the BANDHAN schema an indicator starting with D or d makes the
\* amount the debit (credit 0), one starting with C or c makes it the credit
\* (debit 0), and only an absent indicator lets the sign of the amount decide;
\* the resolved debit and credit are non-negative and at most one is non-zero.
C19_IndicatorDecides ==
  (upBank = "BANDHAN" /\ Len(results) = Len(KeptRows)) =>
    \A i \in 1..Len(results) :
      LET nrow == NormalizeRow(KeptRows[i])
          amt  == parseNumberSafe(getVal(nrow, <<"amount", "Amount">>))
          ind  == getVal(nrow, <<"dr_cr", "dr/cr", "dr cr", "cr_dr", "type">>)
          d    == results[i]._parsed_debit
          c    == results[i]._parsed_credit
      IN  /\ d >= 0 /\ c >= 0 /\ (d = 0 \/ c = 0)
          /\ IndicatorStartsWith(ind, {"D", "d"}) => (d = Abs(amt) /\ c = 0)
          /\ IndicatorStartsWith(ind, {"C", "c"}) => (c = Abs(amt) /\ d = 0)
          /\ (ind # Undefined /\ StrTrim(ind) # <<>> /\ amt < 0
              /\ ~IndicatorStartsWith(ind, {"D", "d", "C", "c"})) => d = 0

\* A decimal number as the specification reads it: an optional sign, digits
\* with an optional fraction (or a fraction alone), and nothing else.
IsPlainDecimal(s) ==
  LET u  == IF s # <<>> /\ Head(s) \in {"-", "+"} THEN Tail(s) ELSE s
      ip == DigitPrefix(u)
      r  == SubSeq(u, Len(ip) + 1, Len(u))
      fp == IF r # <<>> /\ Head(r) = "." THEN DigitPrefix(Tail(r)) ELSE <<>>
      used == Len(ip) + (IF r # <<>> /\ Head(r) = "." THEN 1 + Len(fp) ELSE 0)
  IN  (ip # <<>> \/ fp # <<>>) /\ used = Len(u)

\* ... after comma stripping and trimming, bare or wrapped in parentheses.
IsDecimalText(val) ==
  /\ val \notin {Undefined, Null}
  /\ LET cleaned == StrTrim(SelectSeq(val, LAMBDA c : c # ","))
     IN  \/ IsPlainDecimal(cleaned)
         \/ IsParenthesised(cleaned) /\ IsPlainDecimal(StrTrim(StripParens(cleaned)))

\* C20: parseNumberSafe returns zero for null, undefined, a text that is empty
\* after trimming and every text that is not a decimal number after comma
\* stripping ("abc", "12abc", "(abc)", "Infinity"), and its result is always
\* a finite number.
C20_ZeroOnParseFailure ==
  parsed.called =>
    /\ IsFinite(parsed.result)
    /\ ~IsDecimalText(parsed.val) => parsed.result = 0

\* The text without its commas.
NoCommas(s) == SelectSeq(s, LAMBDA c : c # ",")

\* A decimal magnitude: digits with an optional fraction, no sign, thousands
\* commas allowed.
IsMagnitude(m) ==
  /\ m \notin {Undefined, Null}
  /\ NoCommas(m) # <<>>
  /\ Head(NoCommas(m)) \in Digits \cup {"."}
  /\ IsPlainDecimal(NoCommas(m))

\* The value, in thousandths, of the decimal digits d1 d2 ... dn [. f1 f2 f3],
\* read digit by digit with the weight of each position.
RECURSIVE Pow10(_)
Pow10(n) == IF n = 0 THEN 1 ELSE 10 * Pow10(n - 1)

PointAt(s) ==
  IF \E i \in 1..Len(s) : s[i] = "." THEN CHOOSE i \in 1..Len(s) : s[i] = "." ELSE Len(s) + 1

DecimalThousandths(s) ==
  LET neg  == s # <<>> /\ Head(s) = "-"
      u    == IF s # <<>> /\ Head(s) \in {"-", "+"} THEN Tail(s) ELSE s
      p    == PointAt(u)
      W[i \in 0..Len(u)] ==
        IF i = 0 THEN 0
        ELSE W[i - 1] +
             (IF i < p THEN DigitVal(u[i]) * 1000 * Pow10(p - 1 - i)
              ELSE IF i > p /\ i - p <= 3 THEN DigitVal(u[i]) * Pow10(3 - (i - p))
              ELSE 0)
  IN  IF neg THEN 0 - W[Len(u)] ELSE W[Len(u)]

\* C21: a value fully wrapped in parentheses is a negative magnitude:
\* parseNumberSafe("(" m ")") = -parseNumberSafe(m) for every decimal magnitude
\* m, "(1,234.50)" gives -1234.50 and "(500)" gives -500; a value that is not
\* wholly enclosed by one pair of parentheses is not negated.
C21_ParenthesesNegate ==
  parsed.called /\ parsed.val \notin {Undefined, Null} =>
    LET val     == parsed.val
        cleaned == StrTrim(NoCommas(val))
    IN  /\ (Len(val) >= 2 /\ Head(val) = "(" /\ val[Len(val)] = ")"
            /\ IsMagnitude(SubSeq(val, 2, Len(val) - 1))) =>
             /\ parsed.result = 0 - parseNumberSafe(SubSeq(val, 2, Len(val) - 1))
             /\ parsed.result = 0 - DecimalThousandths(NoCommas(SubSeq(val, 2, Len(val) - 1)))
        /\ val = TxtParenThousands => parsed.result = 0 - 1234500
        /\ val = TxtParen500 => parsed.result = 0 - 500000
        /\ (~(cleaned # <<>> /\ Head(cleaned) = "(" /\ cleaned[Len(cleaned)] = ")")
            /\ \A i \in 1..Len(val) : val[i] # "-") => parsed.result >= 0

C21_Witness ==
  /\ parsed.called
  /\ parsed.val = TxtParenThousands
  /\ parsed.result = 0 - 1234500

\* C22: for a valid decimal string with optional thousands commas and
\* surrounding white space, parseNumberSafe returns the value of the decimal
\* with commas and white space removed, exact to two decimals ("1,234.50"
\* gives 1234.50, "" gives 0).
C22_DecimalRoundTrip ==
  parsed.called /\ parsed.val \notin {Undefined, Null} =>
    LET cleaned == StrTrim(NoCommas(parsed.val))
    IN  /\ IsPlainDecimal(cleaned) => parsed.result = DecimalThousandths(cleaned)
        /\ cleaned = <<>> => parsed.result = 0
        /\ parsed.val = TxtThousands => parsed.result = 1234500

C22_Witness ==
  /\ parsed.called
  /\ parsed.val = <<"1", ",", "5">>
  /\ parsed.result = 15000

\* The elements of a sequence.
Range(f) == {f[i] : i \in DOMAIN f}

\* C23: the template download returns, for each of the eight registered
\* banks, exactly one header row and no data row; for any other identifier it
\* returns status 400 with the list of available banks and no CSV content.
C23_TemplateOrError ==
  \A i \in 1..Len(downloads) :
    LET r == downloads[i]
    IN  IF r.bank \in Banks
          THEN r.status = 200 /\ r.type = "csv" /\ Len(r.lines) = 1 /\ r.lines[1] # <<>>
          ELSE r.status = 400 /\ r.type = "json" /\ r.lines = <<>> /\ r.availableBanks = Banks

\* C24: the columns of a bank's CSV template header are exactly the field
\* names of the bank's schema (BANK_CONFIG[bank].fields), and the banks with a
\* CSV template, with a schema and with a layout template are the same.
C24_HeaderMatchesSchema ==
  /\ DOMAIN csvTemplates = DOMAIN BANK_CONFIG
  /\ DOMAIN csvTemplates = bankTemplateKeys
  /\ \A i \in 1..Len(downloads) :
       downloads[i].status = 200 /\ downloads[i].bank \in Banks =>
         Range(downloads[i].lines[1]) = Range(BANK_CONFIG[downloads[i].bank])

\* The column names the extraction of some bank reads, and the computed ones.
RecognizedFields ==
  {"withdrawal", "withdrawals", "debit", "deposit", "deposits", "credit", "amount", "Amount",
   "dr_cr", "dr/cr", "dr cr", "cr_dr", "type", "balance", "_parsed_debit", "_parsed_credit"}

\* C25: resolving a row of upload-statement passes every input column that is
\* not a recognized field into the output entry under its trimmed name with
\* its value unchanged; only balance is replaced and _parsed_debit and
\* _parsed_credit are added.
C25_UnrecognizedColumnsPassThrough ==
  Len(results) = Len(KeptRows) =>
    \A i \in 1..Len(results) :
      \A n \in 1..Len(KeptRows[i]) :
        LET c == KeptRows[i][n]
        IN  KeyLower(KeyTrim(c.k)) \notin RecognizedFields =>
              \E m \in 1..Len(results[i].fields) :
                /\ results[i].fields[m].k = KeyTrim(c.k)
                /\ results[i].fields[m].v = c.v

\* C26: when two POST /api/entry requests overlap (the second reads the last
\* balance before the first has inserted), the two inserted entries still form
\* a chain: the entry with the larger id has the balance of the entry with the
\* smaller id minus its debit plus its credit.
C26_OverlappingPostsChain ==
  \A i \in 2..Len(entries) :
    (/\ entries[i].via = "post"
     /\ entries[i - 1].via = "post"
     /\ entries[i].id = entries[i - 1].id + 1
     /\ IsNum(entries[i].balance)
     /\ IsNum(entries[i - 1].balance))
      => entries[i].balance[1]
           = entries[i - 1].balance[1] - CellOrZero(entries[i].debit)
               + CellOrZero(entries[i].credit)

\* C27: every import-csv (and upload-statement) request that carries a file
\* receives exactly one response, also when the file stream reports a read
\* error; no path ends without one.
C27_EveryFileRequestAnswered ==
  (impFile # "none" /\ impPc \in {"responded", "crashed"}) => impStatus \in {200, 400, 500}

\* C28: on every terminating path of upload-statement that received a file
\* (unsupported bank, parse completed, stream error, exception while setting
\* up the parser) the temporary file has been deleted when the response is
\* sent.
C28_TempFileDeleted ==
  (upFile # "none" /\ upPc \in {"responded", "threw"}) => upFile = "deleted"

\* C29: account_info holds at most one record after any sequence of POST
\* /api/account requests, two overlapping requests on an empty table included.
C29_AtMostOneAccountRecord == Len(accountInfo) <= 1

\* C30: within one document the row height of an entry depends only on the
\* entry's text and the template, not on its position: two entries with the
\* same text get the same row height, whether first, later or first after a
\* page break (the font in effect when a row is measured is always the same).
C30_RowHeightIndependentOfPosition ==
  \A i \in RowIdxs, j \in RowIdxs :
    genTxns[ops[i].idx] = genTxns[ops[j].idx] => ops[i].h = ops[j].h

====
